---- MODULE Spec2Model ----
(***************************************************************************)
(* Model of whistleblower/targets/twitter.py: the Twitter target           *)
(* (duplicate filter, timeline pagination, backfill) and the Post          *)
(* (tweet data, publish).                                                  *)
(*                                                                         *)
(* Specifications:                                                         *)
(*   SpecPosts      Twitter.posts against a client returning any pages     *)
(*   SpecTimeline   Twitter.posts against a client serving a fixed timeline*)
(*   SpecProvision  Twitter.provision_database over a fixed timeline       *)
(*   Spec           pipeline runs: Twitter.post_queue, then Post.publish   *)
(***************************************************************************)
EXTENDS Integers, Sequences, FiniteSets, TLC

VARIABLES
    timeline,       \* posts held by the account, most recent first
    max_id,         \* local of Twitter.posts
    pages,          \* history: raw pages returned by GetUserTimeline
    calls,          \* history: max_id argument of every GetUserTimeline call
    yielded,        \* history: batches yielded by Twitter.posts
    pcPosts,        \* "loop" while the generator can resume, then "done"
    pcProvision,    \* "running", "done" or "raised" (provision_database)
    database,       \* DATABASE.posts, in insertion order
    reimbursements, \* the input collection of the pipeline
    queue,          \* the result of the last Twitter.post_queue
    qpos,           \* index in queue of the next reimbursement to publish
    run,            \* number of pipeline runs started
    nextId,         \* id the timeline service gives to its next post
    faults,         \* client / store failures injected so far
    published,      \* history: posts created by PostUpdate, per run
    lastPublish     \* history: what the last Post.publish did

vars == <<timeline, max_id, pages, calls, yielded, pcPosts, pcProvision,
          database, reimbursements, queue, qpos, run, nextId, faults,
          published, lastPublish>>

postsVars == <<max_id, pages, calls, yielded, pcPosts>>
pipelineVars == <<reimbursements, queue, qpos, run, nextId, faults,
                  published, lastPublish>>

----------------------------------------------------------------------------
(* Bounds *)

MaxCalls == 3
MaxTimeline == 62
MaxProvision == 22
MaxInput == 2
MaxRuns == 2
MaxFaults == 1

----------------------------------------------------------------------------
(* Python values *)

\* max_id = None; post ids are positive
None == -1

NAME == "twitter"
PROFILE == "RosieDaSerenata"

Last(s) == s[Len(s)]

\* the response of urlopen: it raises, or its final url ends in segment last
Response(raises, last) == [raises |-> raises, last |-> last]
NoResponse == Response(TRUE, "")

RECURSIVE Flatten(_)
Flatten(ss) == IF ss = <<>> THEN <<>> ELSE Head(ss) \o Flatten(Tail(ss))

----------------------------------------------------------------------------
(* Twitter.posts *)

\* a timeline post as the client returns it; resolves is what a HEAD request
\* for the link of its text meets
TimelinePost(id, text, resolves) ==
    [id |-> id,
     text |-> text,
     user |-> [screen_name |-> PROFILE],
     created_at_in_seconds |-> 1500000000 + 3600 * id,
     resolves |-> resolves]

\* posts[1:] when max_id != None
DropBoundaryKeep(posts, mid) == posts
DropBoundary(posts, mid) ==
    IF mid # None
    THEN (IF posts = <<>> THEN <<>> ELSE Tail(posts))
    ELSE posts

\* max_id = posts[-1].id, only when a batch is yielded
NextMaxIdStale(posts, mid) == mid
NextMaxId(posts, mid) ==
    IF Len(posts) > 0 THEN Last(posts).id ELSE mid

\* if len(posts) < 19: break
LastPageOffByOne(posts) == Len(posts) < 20
LastPage(posts) == Len(posts) < 19

\* one iteration of the while loop, given the page the client returned
PostsIteration(page) ==
    LET posts == DropBoundary(page, max_id) IN
    /\ pcPosts = "loop"
    /\ calls' = Append(calls, max_id)
    /\ pages' = Append(pages, page)
    /\ yielded' = IF Len(posts) > 0 THEN Append(yielded, posts) ELSE yielded
    /\ max_id' = NextMaxId(posts, max_id)
    /\ pcPosts' = IF LastPage(posts) THEN "done" ELSE "loop"

\* a client returning pages of any size: ids descend from any start
PageSizes == {0, 1, 5, 18, 19, 20}
PageStarts == {40, 90}
AnyPage(start, n) == [i \in 1..n |-> TimelinePost(start - i + 1, <<>>, NoResponse)]

PostsAnyClient ==
    /\ Len(calls) < MaxCalls
    /\ \E start \in PageStarts, n \in PageSizes : PostsIteration(AnyPage(start, n))
    /\ UNCHANGED <<timeline, pcProvision, database>>
    /\ UNCHANGED pipelineVars

\* the client of a fixed timeline: the 20 most recent posts with id <= max_id
PageSize == 20
Prefix(s, n) == SubSeq(s, 1, IF Len(s) < n THEN Len(s) ELSE n)
GetUserTimeline(mid) ==
    Prefix(SelectSeq(timeline, LAMBDA p : mid = None \/ p.id <= mid), PageSize)

PostsTimelineClient ==
    /\ PostsIteration(GetUserTimeline(max_id))
    /\ UNCHANGED <<timeline, pcProvision, database>>
    /\ UNCHANGED pipelineVars

----------------------------------------------------------------------------
(* Post.__iter__ *)

\* datetime.datetime.utcfromtimestamp: day since the epoch, second of the day
utcfromtimestamp(seconds) ==
    [days |-> seconds \div 86400, seconds |-> seconds % 86400]

\* dict(post), with post.status = status and post.reimbursement = reimbursement
PostRecordStatusId(status, reimbursement) ==
    [integration |-> "chamber_of_deputies",
     target |-> NAME,
     id |-> status.id,
     screen_name |-> status.user.screen_name,
     created_at |-> utcfromtimestamp(status.created_at_in_seconds),
     text |-> status.text,
     document_id |-> status.id]
PostRecord(status, reimbursement) ==
    [integration |-> "chamber_of_deputies",
     target |-> NAME,
     id |-> status.id,
     screen_name |-> status.user.screen_name,
     created_at |-> utcfromtimestamp(status.created_at_in_seconds),
     text |-> status.text,
     document_id |-> reimbursement.document_id]

----------------------------------------------------------------------------
(* Twitter.__database_record_for_post and Twitter.provision_database *)

\* a text is the sequence of its words, separated by single spaces
ShortLinks == {"https://t.co/abc123"}

\* re.search(r'(https://t.co/.+) ', text): the match starts at the first
\* link that a space follows and, .+ being greedy, group 1 runs to the last
\* space of the text; <<>> when there is no match
search(text) ==
    LET starts == {i \in 1..(Len(text) - 1) : text[i] \in ShortLinks} IN
    IF starts = {} THEN <<>>
    ELSE SubSeq(text, CHOOSE i \in starts : \A j \in starts : i <= j,
                Len(text) - 1)

\* int(): the decimal strings of the model
Decimals == ("4521" :> 4521) @@ ("999" :> 999)

\* [raised, value]: value is the record, or <<>> for None
DatabaseRecordForPost(timeline_post) ==
    IF search(timeline_post.text) # <<>>
    THEN IF timeline_post.resolves.raises
         THEN [raised |-> "URLError", value |-> <<>>]
         ELSE IF timeline_post.resolves.last \notin DOMAIN Decimals
         THEN [raised |-> "ValueError", value |-> <<>>]
         ELSE [raised |-> "",
               value |-> <<PostRecord(timeline_post,
                   [document_id |-> Decimals[timeline_post.resolves.last]])>>]
    ELSE [raised |-> "", value |-> <<>>]

\* [post for post in map(...) if post]
RECURSIVE RecordsOf(_)
RecordsOf(posts_chunk) ==
    IF posts_chunk = <<>> THEN <<>>
    ELSE DatabaseRecordForPost(Head(posts_chunk)).value
            \o RecordsOf(Tail(posts_chunk))

Raises(posts_chunk) ==
    \E i \in 1..Len(posts_chunk) :
        DatabaseRecordForPost(posts_chunk[i]).raised # ""

\* one iteration of the for loop: the generator produces the next batch (or
\* ends), the batch is mapped and inserted
ProvisionBatch ==
    LET page == GetUserTimeline(max_id)
        posts_chunk == DropBoundary(page, max_id)
    IN
    /\ pcProvision = "running"
    /\ PostsIteration(page)
    /\ IF posts_chunk = <<>>
       THEN /\ pcProvision' = "done"
            /\ database' = database
       ELSE IF Raises(posts_chunk)
       THEN /\ pcProvision' = "raised"
            /\ database' = database
       ELSE /\ pcProvision' = IF LastPage(posts_chunk) THEN "done" ELSE "running"
            /\ database' = database \o RecordsOf(posts_chunk)
    /\ UNCHANGED timeline
    /\ UNCHANGED pipelineVars

----------------------------------------------------------------------------
(* Twitter.post_queue and Twitter.posted_reimbursements *)

\* database.posts.find({'target': NAME}, {'document_id': True}), as the
\* array of the document ids found
RECURSIVE PostedReimbursementsAnyTarget(_)
PostedReimbursementsAnyTarget(db) ==
    IF db = <<>> THEN <<>>
    ELSE <<Head(db).document_id>> \o PostedReimbursementsAnyTarget(Tail(db))
RECURSIVE PostedReimbursements(_)
PostedReimbursements(db) ==
    IF db = <<>> THEN <<>>
    ELSE (IF Head(db).target = NAME THEN <<Head(db).document_id>> ELSE <<>>)
            \o PostedReimbursements(Tail(db))

\* Series.isin
isinNever(value, values) == FALSE
isin(value, values) == \E i \in 1..Len(values) : values[i] = value

\* rows = ~reimbursements.document_id.isin(posted)
RowsNotNegated(frame, posted) ==
    [i \in 1..Len(frame) |-> isin(frame[i].document_id, posted)]
Rows(frame, posted) ==
    [i \in 1..Len(frame) |-> ~isin(frame[i].document_id, posted)]

\* reimbursements[rows]: the rows of a true mask, in the order of the frame
RECURSIVE Masked(_, _)
Masked(frame, rows) ==
    IF frame = <<>> THEN <<>>
    ELSE (IF Head(rows) THEN <<Head(frame)>> ELSE <<>>)
            \o Masked(Tail(frame), Tail(rows))

post_queue(frame, db) == Masked(frame, Rows(frame, PostedReimbursements(db)))

\* a pipeline run starts: the queue is computed once over the input
PostQueue ==
    /\ qpos > Len(queue)
    /\ run < MaxRuns
    /\ queue' = post_queue(reimbursements, database)
    /\ qpos' = 1
    /\ run' = run + 1
    /\ UNCHANGED <<reimbursements, nextId, faults, published, lastPublish>>
    /\ UNCHANGED <<timeline, pcProvision, database>>
    /\ UNCHANGED postsVars

----------------------------------------------------------------------------
(* Post *)

\* handles: a name, the empty string, None, and the NaN of a missing cell
PyNone == "<None>"
PyNaN == "<nan>"

\* truth value of a handle in `if profile:`
TruthyAlways(profile) == TRUE
Truthy(profile) == profile \notin {"", PyNone}

\* '{}'.format(value) of a handle
FormatHandle(profile) ==
    IF profile = PyNaN THEN "nan"
    ELSE IF profile = PyNone THEN "None" ELSE profile

\* Post.tweet_text (the leading siren character is left out)
tweet_text(reimbursement) ==
    LET link == "https://jarbas.serenata.ai/layers/#/documentId/"
                    \o ToString(reimbursement.document_id)
    IN "Gasto suspeito de Dep. @"
          \o FormatHandle(reimbursement.twitter_profile)
          \o " (" \o reimbursement.state \o "). "
          \o "Voce pode me ajudar a verificar? "
          \o link \o " #SerenataDeAmor na @CamaraDeputados"

\* Post.camara_image_url
camara_image_url(reimbursement) ==
    "http://www.camara.gov.br/cota-parlamentar/documentos/publ/"
        \o ToString(reimbursement.applicant_id) \o "/"
        \o ToString(reimbursement.year) \o "/"
        \o ToString(reimbursement.document_id) \o ".pdf"

\* Post.tweet_image: pipelineFails says whether fetching camara_image_url,
\* converting, cropping or reading the file raises; the value is the file
\* object (closed when the with block ends) or None
NoMedia == [file |-> "", closed |-> TRUE, none |-> TRUE]
CroppedFile(url) == [file |-> url, closed |-> TRUE, none |-> FALSE]
TweetImagePropagates(reimbursement, pipelineFails) ==
    IF pipelineFails
    THEN [raised |-> "Exception", value |-> NoMedia]
    ELSE [raised |-> "", value |-> CroppedFile(camara_image_url(reimbursement))]
tweet_image(reimbursement, pipelineFails) ==
    IF pipelineFails
    THEN [raised |-> "", value |-> NoMedia]
    ELSE [raised |-> "", value |-> CroppedFile(camara_image_url(reimbursement))]

\* Post.tweet_data: [raised, text, image]
tweet_data(reimbursement, pipelineFails) ==
    IF Truthy(reimbursement.twitter_profile)
    THEN LET image == tweet_image(reimbursement, pipelineFails) IN
         [raised |-> image.raised,
          text |-> tweet_text(reimbursement),
          image |-> image.value]
    ELSE [raised |-> "ValueError", text |-> "", image |-> NoMedia]

\* the status api.PostUpdate returns for a text
Status(id, text) ==
    [id |-> id,
     text |-> text,
     user |-> [screen_name |-> PROFILE],
     created_at_in_seconds |-> 1500000000 + 3600 * id]
NoStatus == Status(0, "")

\* the store after database.posts.insert_one(dict(self))
InsertOneFirst(db, record) == <<record>> \o db
InsertOne(db, record) == Append(db, record)

\* Post.publish of the next reimbursement of the queue; postFails and
\* insertFails say whether api.PostUpdate and insert_one raise
Publish(pipelineFails, postFails, insertFails) ==
    LET reimbursement == queue[qpos]
        data == tweet_data(reimbursement, pipelineFails)
        called == data.raised = ""
        posted == called /\ ~postFails
        status == IF posted THEN Status(nextId, data.text) ELSE NoStatus
        inserted == posted /\ ~insertFails
    IN
    /\ qpos <= Len(queue)
    /\ faults + (IF postFails THEN 1 ELSE 0)
              + (IF insertFails THEN 1 ELSE 0) <= MaxFaults
    /\ ~Truthy(reimbursement.twitter_profile) => ~pipelineFails
    /\ ~called => ~postFails /\ ~insertFails
    /\ postFails => ~insertFails
    /\ faults' = faults + (IF postFails THEN 1 ELSE 0)
                        + (IF insertFails THEN 1 ELSE 0)
    /\ nextId' = IF posted THEN nextId + 1 ELSE nextId
    /\ database' = IF inserted
                   THEN InsertOne(database, PostRecord(status, reimbursement))
                   ELSE database
    /\ published' = IF called
                    THEN published \cup
                           {[run |-> run,
                             document_id |-> reimbursement.document_id,
                             posted |-> posted,
                             recorded |-> inserted]}
                    ELSE published
    /\ lastPublish' = [called |-> called,
                       document_id |-> reimbursement.document_id,
                       pipelineFails |-> pipelineFails,
                       text |-> data.text,
                       media |-> data.image,
                       status |-> status,
                       posted |-> posted,
                       inserted |-> inserted,
                       raised |-> IF data.raised # "" THEN data.raised
                                  ELSE IF postFails THEN "TwitterError"
                                  ELSE IF insertFails THEN "PyMongoError"
                                  ELSE ""]
    /\ qpos' = qpos + 1
    /\ UNCHANGED <<reimbursements, queue, run>>
    /\ UNCHANGED <<timeline, pcProvision>>
    /\ UNCHANGED postsVars

PublishNext ==
    \E pipelineFails, postFails, insertFails \in BOOLEAN :
        Publish(pipelineFails, postFails, insertFails)

----------------------------------------------------------------------------
(* Initial states *)

PostsInit ==
    /\ max_id = None
    /\ pages = <<>>
    /\ calls = <<>>
    /\ yielded = <<>>
    /\ pcPosts = "loop"

PipelineIdle ==
    /\ queue = <<>>
    /\ qpos = 1
    /\ run = 0
    /\ nextId = 1
    /\ faults = 0
    /\ published = {}
    /\ lastPublish = [called |-> FALSE,
                      document_id |-> 0,
                      pipelineFails |-> FALSE,
                      text |-> "",
                      media |-> NoMedia,
                      status |-> NoStatus,
                      posted |-> FALSE,
                      inserted |-> FALSE,
                      raised |-> ""]

\* timelines of distinct ids, most recent first
IdStrides == {1, 3}
PlainTimeline(n, stride) ==
    [i \in 1..n |-> TimelinePost((n - i + 1) * stride, <<>>, NoResponse)]

InitPosts ==
    /\ PostsInit
    /\ PipelineIdle
    /\ reimbursements = <<>>
    /\ timeline = <<>>
    /\ pcProvision = "done"
    /\ database = <<>>

InitTimeline ==
    /\ PostsInit
    /\ PipelineIdle
    /\ reimbursements = <<>>
    /\ \E n \in 0..MaxTimeline, stride \in IdStrides :
          timeline = PlainTimeline(n, stride)
    /\ pcProvision = "done"
    /\ database = <<>>

\* timelines for the backfill: every post links to a document, except the one
\* at position odd (if any), which is of one of the kinds below
LinkText == <<"see", "https://t.co/abc123", "for", "details">>
OddPosts ==
    {[text |-> <<"no", "link", "here">>, resolves |-> NoResponse],
     [text |-> <<"see", "https://t.co/abc123">>, resolves |-> Response(FALSE, "999")],
     [text |-> LinkText, resolves |-> Response(TRUE, "")],
     [text |-> LinkText, resolves |-> Response(FALSE, "login")]}
LinkedTimeline(n, at, odd) ==
    [i \in 1..n |->
        IF i = at
        THEN TimelinePost(n - i + 1, odd.text, odd.resolves)
        ELSE TimelinePost(n - i + 1, LinkText,
                 Response(FALSE, IF i % 2 = 0 THEN "4521" ELSE "999"))]

InitProvision ==
    /\ PostsInit
    /\ PipelineIdle
    /\ reimbursements = <<>>
    /\ \E n \in 0..MaxProvision : \E at \in 0..n : \E odd \in OddPosts :
          timeline = LinkedTimeline(n, at, odd)
    /\ pcProvision = "running"
    /\ database = <<>>

\* inputs of the pipeline
DocumentIds == {999, 4521}
Handles == {"joe123", "", PyNone, PyNaN}
Reimbursement(document_id, twitter_profile) ==
    [document_id |-> document_id,
     twitter_profile |-> twitter_profile,
     state |-> "SP",
     applicant_id |-> 1234,
     year |-> 2017]
Reimbursements ==
    {Reimbursement(d, h) : d \in DocumentIds, h \in Handles}
Inputs == UNION {[1..n -> Reimbursements] : n \in 0..MaxInput}

\* stores the pipeline can start from: empty, one post of this target, one
\* post of another target
StoredRecord(target, document_id) ==
    [PostRecord(Status(100, "earlier post"), [document_id |-> document_id])
        EXCEPT !.target = target]
InitialStores ==
    {<<>>, <<StoredRecord(NAME, 999)>>, <<StoredRecord("telegram", 999)>>}

Init ==
    /\ PostsInit
    /\ PipelineIdle
    /\ reimbursements \in Inputs
    /\ database \in InitialStores
    /\ timeline = <<>>
    /\ pcProvision = "done"

NextPosts == PostsAnyClient
NextTimeline == PostsTimelineClient
NextProvision == ProvisionBatch
Next == PostQueue \/ PublishNext

SpecPosts == InitPosts /\ [][NextPosts]_vars
SpecTimeline == InitTimeline /\ [][NextTimeline]_vars /\ WF_vars(NextTimeline)
SpecProvision == InitProvision /\ [][NextProvision]_vars
Spec == Init /\ [][Next]_vars

----------------------------------------------------------------------------
(* Twitter.posts: claims *)

\* size of the i-th page as the loop tests it: pages after the first have
\* lost their first element
TestedSize(i) ==
    IF i = 1 \/ pages[i] = <<>> THEN Len(pages[i]) ELSE Len(pages[i]) - 1

\* C2: the first GetUserTimeline call carries max_id None, every later call
\* carries the id of the last post of the most recently yielded batch, and a
\* batch yielded from a page after the first is that page without its first
\* element (the first page is yielded whole).
C2_PaginationProtocol ==
    [][Len(calls') = Len(calls) + 1 =>
          /\ IF calls = <<>>
             THEN Last(calls') = None
             ELSE yielded # <<>> /\ Last(calls') = Last(Last(yielded)).id
          /\ Len(yielded') = Len(yielded) + 1 =>
                Last(yielded') = IF calls = <<>> THEN Last(pages')
                                 ELSE Tail(Last(pages'))
       ]_vars

\* pages of sizes 20, 20, 5: three calls, three batches
C2_Witness ==
    /\ Len(calls) = 3
    /\ Len(pages[1]) = 20 /\ Len(pages[2]) = 20 /\ Len(pages[3]) = 5
    /\ calls[2] = Last(pages[1]).id
    /\ calls[3] = Last(pages[2]).id
    /\ Len(yielded) = 3 /\ Len(yielded[2]) = 19 /\ Len(yielded[3]) = 4

\* C3 as stated: the generator stops at the first page that returns fewer than
\* 19 posts, and not before.
C3_StopsAtFirstPageUnder19 ==
    /\ \A i \in 1..(Len(pages) - 1) : Len(pages[i]) >= 19
    /\ pages # <<>> =>
          ((pcPosts = "done") <=> (Len(Last(pages)) < 19))

\* C3 amended: the generator stops at the first page that has fewer than 19
\* posts once the boundary post is dropped (a first page returning fewer than
\* 19 posts, a later page returning fewer than 20), and not before.
C3_StopsAtFirstTestedSizeUnder19 ==
    /\ \A i \in 1..(Len(pages) - 1) : TestedSize(i) >= 19
    /\ pages # <<>> =>
          ((pcPosts = "done") <=> (TestedSize(Len(pages)) < 19))
    /\ pages = <<>> => pcPosts = "loop"
    /\ Len(calls) = Len(pages)

\* a second page returning exactly 19 posts ends the sequence
C3_Witness ==
    /\ pcPosts = "done"
    /\ Len(calls) = 2
    /\ Len(pages[1]) = 20 /\ Len(pages[2]) = 19

\* C10: against the client of a fixed timeline, Twitter.posts terminates, no
\* yielded batch is empty, and the yielded batches concatenated are the whole
\* timeline, most recent first, nothing repeated and nothing omitted.
C10_WholeTimeline ==
    /\ <>[](pcPosts = "done" /\ Flatten(yielded) = timeline)
    /\ [](\A i \in 1..Len(yielded) : yielded[i] # <<>>)

\* 41 posts arrive as batches of 20, 19 and 2
C10_Witness ==
    /\ pcPosts = "done"
    /\ Len(timeline) = 41
    /\ Len(yielded) = 3
    /\ Len(yielded[3]) = 2

----------------------------------------------------------------------------
(* Twitter.provision_database: claims *)

Resolvable(post) ==
    /\ search(post.text) # <<>>
    /\ ~post.resolves.raises
    /\ post.resolves.last \in DOMAIN Decimals

\* C4: a post whose text has no link, or whose link does not resolve to an
\* integer, is skipped silently: no error reaches the caller of
\* provision_database, and once it is done the store holds one record for
\* each of the other posts of the timeline, in order.
C4_UnresolvablePostsSkipped ==
    /\ pcProvision # "raised"
    /\ pcProvision = "done" =>
          LET expected == SelectSeq(timeline, Resolvable) IN
          /\ Len(database) = Len(expected)
          /\ \A i \in 1..Len(expected) :
                /\ database[i].id = expected[i].id
                /\ database[i].document_id = Decimals[expected[i].resolves.last]

----------------------------------------------------------------------------
(* Pipeline: claims *)

\* a publish step is a step that moves on in the queue
PublishStep == qpos' = qpos + 1

TwitterRecords(document_id) ==
    {i \in 1..Len(database) :
        database[i].target = "twitter" /\ database[i].document_id = document_id}

\* C1: post_queue returns exactly the reimbursements whose document id is in
\* no stored record of target 'twitter', in their order in the input.
C1_PostQueueFilters ==
    (run >= 1 /\ qpos = 1) =>
        queue = SelectSeq(reimbursements,
                    LAMBDA r : TwitterRecords(r.document_id) = {})

\* one of two reimbursements is filtered out, the other is queued
C1_Witness ==
    /\ run >= 1 /\ qpos = 1
    /\ Len(reimbursements) = 2
    /\ TwitterRecords(reimbursements[1].document_id) # {}
    /\ queue = <<reimbursements[2]>>

\* C5: a record is inserted only by a publish whose PostUpdate returned; a
\* publish that raises nothing inserts exactly one record, which carries the
\* id, text, handle and creation time of the returned post and the document
\* id of the reimbursement; a failed PostUpdate inserts nothing; the records
\* already stored stay as they are.
C5_RecordAfterPublish ==
    [][/\ Len(database') >= Len(database)
       /\ SubSeq(database', 1, Len(database)) = database
       /\ database' # database => PublishStep
       /\ PublishStep =>
            LET lp == lastPublish' IN
            /\ Len(database') <= Len(database) + 1
            /\ database' # database => lp.called /\ lp.posted
            /\ ~lp.posted => database' = database
            /\ lp.raised = "" =>
                  /\ lp.posted
                  /\ Len(database') = Len(database) + 1
                  /\ LET record == Last(database') IN
                     /\ record.target = "twitter"
                     /\ record.id = lp.status.id
                     /\ record.text = lp.status.text
                     /\ record.screen_name = lp.status.user.screen_name
                     /\ record.created_at.days * 86400
                           + record.created_at.seconds
                          = lp.status.created_at_in_seconds
                     /\ record.document_id = queue[qpos].document_id
      ]_vars

\* a publish succeeded on a store that already held a record
C5_Witness ==
    /\ lastPublish.raised = "" /\ lastPublish.posted
    /\ Len(database) = 2
    /\ Last(database).id = lastPublish.status.id
    /\ Last(database).document_id = lastPublish.document_id

\* C6: when the image pipeline fails, publish raises nothing because of it:
\* PostUpdate is called with the text of the reimbursement and no media, and
\* the returned post is recorded (unless PostUpdate or insert_one raises).
C6_ImageFailureDegrades ==
    [][(PublishStep /\ lastPublish'.pipelineFails) =>
          LET lp == lastPublish' IN
          /\ lp.called
          /\ lp.media.none
          /\ lp.text = tweet_text(queue[qpos])
          /\ lp.raised \in {"", "TwitterError", "PyMongoError"}
          /\ lp.raised = "" =>
                /\ lp.posted
                /\ database' # database
                /\ Last(database').id = lp.status.id
                /\ Last(database').text = tweet_text(queue[qpos])
      ]_vars

C6_Witness ==
    /\ lastPublish.pipelineFails
    /\ lastPublish.called /\ lastPublish.media.none
    /\ lastPublish.raised = ""
    /\ database # <<>> /\ Last(database).id = lastPublish.status.id

\* C7: publishing a reimbursement whose handle is empty ('' or None) raises
\* ValueError, calls PostUpdate not at all and leaves the store unchanged.
C7_EmptyHandleRaises ==
    [][(PublishStep /\ queue[qpos].twitter_profile \in {"", PyNone}) =>
          /\ lastPublish'.raised = "ValueError"
          /\ ~lastPublish'.called
          /\ ~lastPublish'.posted
          /\ published' = published
          /\ nextId' = nextId
          /\ database' = database
      ]_vars

C7_Witness ==
    /\ lastPublish.raised = "ValueError"
    /\ ~lastPublish.called
    /\ qpos > 1 /\ queue[qpos - 1].twitter_profile = ""
    /\ database # <<>>

\* C8: a document id published and recorded in one run is not passed to
\* PostUpdate again in a later run over the same input.
C8_NoRepublish ==
    \A p, q \in published :
        (p.run < q.run /\ p.posted /\ p.recorded) =>
            q.document_id # p.document_id

\* the second run publishes what the first failed to record, and nothing of
\* what the first recorded
C8_Witness ==
    /\ run = 2 /\ qpos > Len(queue)
    /\ \E p, q \in published :
          /\ p.run = 1 /\ p.posted /\ p.recorded
          /\ q.run = 2 /\ q.posted
          /\ \E i \in 1..Len(reimbursements) :
                reimbursements[i].document_id = p.document_id

\* C9 as stated: the store holds at most one record of target 'twitter' per
\* document id, whatever the input.
C9_AtMostOneRecordPerDocument ==
    \A d \in DocumentIds : Cardinality(TwitterRecords(d)) <= 1

DistinctInput ==
    \A i, j \in 1..Len(reimbursements) :
        i # j => reimbursements[i].document_id # reimbursements[j].document_id

\* C9 amended: when no document id occurs twice in the input collection, the
\* store holds at most one record of target 'twitter' per document id.
C9_AtMostOneRecordPerDistinctDocument ==
    DistinctInput => C9_AtMostOneRecordPerDocument

\* two runs over two distinct documents, both recorded, one by the second run
C9_Witness ==
    /\ DistinctInput
    /\ Len(reimbursements) = 2
    /\ run = 2
    /\ \A i \in 1..2 : TwitterRecords(reimbursements[i].document_id) # {}
    /\ \E q \in published : q.run = 2 /\ q.recorded

====
